---- MODULE Spec2Model ----
(***************************************************************************)
(* A model of fyers-data-fetcher: the date-range chunker, the access-token *)
(* file, the local callback listener and the main download flow.           *)
(*                                                                         *)
(* Dates are proleptic Gregorian ordinals, as in Python's datetime.date;   *)
(* date strings are tuples of their numeric fields: "dd-mm-YYYY" is        *)
(* <<d, m, y>> and "YYYY-MM-DD" is <<y, m, d>>.                            *)
(***************************************************************************)
EXTENDS Integers, Sequences, FiniteSets, TLC

VARIABLES
    \* get_date_ranges and its inputs
    start_date,     \* data_parameters["StartDate"], <<d, m, y>>
    end_date,       \* data_parameters["EndDate"], <<d, m, y>>
    resolution,     \* data_parameters["Resolution"]
    date_ranges,    \* the list get_date_ranges returned
    cpc,            \* position of a direct caller of get_date_ranges
    \* the access-token file
    linesep,        \* os.linesep of the platform
    tokenFile,      \* content of access_token.txt, or NoFile
    tpc,            \* position of a direct caller of the token functions
    nWrites,        \* number of write_access_token calls of that caller
    lastWritten,    \* the token of its latest write_access_token call
    readResult,     \* what its read_access_token call returned
    \* run_local_server
    spc,            \* position in run_local_server
    httpd_running,  \* httpd.running
    httpd_auth_code,\* httpd.auth_code
    g_auth_code,    \* the module global auth_code of authentication_handler
    handled,        \* the requests handle_request has served, in order
    auth_code,      \* the value run_local_server returned
    \* main and fetch_historical_data
    pc,             \* position in main
    answer,         \* the answer to the prompt
    access_token,   \* main's access_token
    session,        \* whether create_fyers_session returned a session
    idx,            \* index of the next chunk of the fetch loop
    all_data,       \* all_data of fetch_historical_data
    requests,       \* the session.history calls made, in order
    responses,      \* the responses to them, in order
    df,             \* the DataFrame fetch_historical_data returned
    raised,         \* the exception that ended main, or NoValue
    csv,            \* the CSV file in downloaded_data, or NoFile
    tokenFile0,     \* content of access_token.txt when main started
    events          \* the calls main has made, in order

chunkVars == <<start_date, end_date, resolution, date_ranges, cpc>>
tokenVars == <<linesep, tokenFile, tpc, nWrites, lastWritten, readResult>>
serverVars ==
    <<spc, httpd_running, httpd_auth_code, g_auth_code, handled, auth_code>>
fetchVars == <<idx, all_data, requests, responses, df>>
mainVars ==
    <<pc, answer, access_token, session, raised, csv, tokenFile0, events>>
vars == <<chunkVars, tokenVars, serverVars, fetchVars, mainVars>>

\* None where a string is expected, None where a token is expected, a file
\* that does not exist, no exception, a DataFrame not yet returned, no CSV
NoValue == "None"
NoToken == <<"None">>
NoFile == <<"NoFile">>
NoError == [type |-> "none", at |-> "none", from |-> <<>>, to |-> <<>>]
NoFrame == [returned |-> FALSE, rows |-> <<>>]
NoCsv ==
    [written |-> FALSE, resolution |-> "", start |-> <<>>, end |-> <<>>,
     rows |-> <<>>]

\* an exception of the given type raised by the given step of main
Error(type, at) == [type |-> type, at |-> at, from |-> <<>>, to |-> <<>>]

----------------------------------------------------------------------------
(* Bounds of the model *)

\* the longest requested interval, in days between start and end
MaxSpan == 401

\* the longest access token, in characters
MaxTokenLen == 3

\* the most write_access_token calls before a read
MaxWrites == 2

\* the most requests the callback listener is sent when run on its own
MaxRequests == 3

\* the most requests the callback listener is sent within a run of main
MaxMainRequests == 2

\* the most candles in one history response
MaxCandles == 1

----------------------------------------------------------------------------
(* Calendar: datetime.date as Python computes it *)

IsLeap(y) == (y % 4 = 0) /\ ((y % 100 # 0) \/ (y % 400 = 0))

DaysInMonth(y, m) ==
    IF m = 2 THEN (IF IsLeap(y) THEN 29 ELSE 28)
    ELSE IF m \in {4, 6, 9, 11} THEN 30 ELSE 31

DaysBeforeYear(y) ==
    (y - 1) * 365 + ((y - 1) \div 4) - ((y - 1) \div 100) + ((y - 1) \div 400)

RECURSIVE DaysBeforeMonth(_, _)
DaysBeforeMonth(y, m) ==
    IF m = 1 THEN 0 ELSE DaysBeforeMonth(y, m - 1) + DaysInMonth(y, m - 1)

\* date(y, m, d).toordinal()
Ymd2Ord(y, m, d) == DaysBeforeYear(y) + DaysBeforeMonth(y, m) + d

\* date.fromordinal(n), as <<y, m, d>>
Ord2Ymd(n) ==
    LET y == CHOOSE yy \in (n \div 366)..((n \div 365) + 1) :
                 DaysBeforeYear(yy) < n /\ n <= DaysBeforeYear(yy + 1)
        r == n - DaysBeforeYear(y)
        m == CHOOSE mm \in 1..12 :
                 DaysBeforeMonth(y, mm) < r
                 /\ r <= DaysBeforeMonth(y, mm) + DaysInMonth(y, mm)
    IN  <<y, m, r - DaysBeforeMonth(y, m)>>

\* datetime.strptime(s, "%d-%m-%Y").date(), s = <<d, m, y>>
strptime_dmY(s) == Ymd2Ord(s[3], s[2], s[1])

\* date.strftime("%Y-%m-%d"), giving <<y, m, d>>
strftime_Ymd(n) == Ord2Ymd(n)

----------------------------------------------------------------------------
(* get_date_ranges *)

Resolutions == {"1", "5", "15", "30", "45", "60", "D"}

\* DATA_LIMIT_DAYS.get(resolution, 100), with an unknown resolution given
\* the limit of the daily one
DataLimitDaysDefaultDaily(res) ==
    IF res = "D" \/ res \notin Resolutions THEN 365 ELSE 100

\* DATA_LIMIT_DAYS.get(resolution, 100)
DataLimitDays(res) ==
    IF res = "D" THEN 365
    ELSE IF res \in Resolutions THEN 100
    ELSE 100

Min(a, b) == IF a <= b THEN a ELSE b

\* the next chunk starting on the day the previous one ends
NextStartSameDay(next_dt) == next_dt

\* start_dt = next_dt + dt.timedelta(days=1)
NextStart(next_dt) == next_dt + 1

\* while start_dt < end_dt
LoopGuard(start_dt, end_dt) == start_dt < end_dt

RECURSIVE ChunkLoop(_, _, _, _)
ChunkLoop(start_dt, end_dt, delta, ranges) ==
    IF LoopGuard(start_dt, end_dt)
    THEN LET next_dt == Min(start_dt + delta, end_dt)
         IN  ChunkLoop(NextStart(next_dt), end_dt, delta,
                       Append(ranges,
                              <<strftime_Ymd(start_dt), strftime_Ymd(next_dt)>>))
    ELSE ranges

get_date_ranges(s, e, res) ==
    ChunkLoop(strptime_dmY(s), strptime_dmY(e), DataLimitDays(res), <<>>)

----------------------------------------------------------------------------
(* The access-token file: text-mode I/O and str.strip *)

Whitespace == {" ", "\t", "\n", "\r", "\f"}

RECURSIVE lstrip(_)
lstrip(s) ==
    IF s # <<>> /\ Head(s) \in Whitespace THEN lstrip(Tail(s)) ELSE s

RECURSIVE rstrip(_)
rstrip(s) ==
    IF s # <<>> /\ s[Len(s)] \in Whitespace
    THEN rstrip(SubSeq(s, 1, Len(s) - 1))
    ELSE s

\* str.strip()
strip(s) == rstrip(lstrip(s))

\* what f.write(s) stores for a file opened in text mode: every "\n"
\* becomes os.linesep
RECURSIVE TextEncode(_, _)
TextEncode(s, sep) ==
    IF s = <<>> THEN <<>>
    ELSE (IF Head(s) = "\n" THEN sep ELSE <<Head(s)>>)
             \o TextEncode(Tail(s), sep)

\* what f.read() gives for a file opened in text mode: "\r\n" and a lone
\* "\r" both become "\n"
RECURSIVE TextDecode(_)
TextDecode(b) ==
    IF b = <<>> THEN <<>>
    ELSE IF Head(b) = "\r"
         THEN IF Len(b) >= 2 /\ b[2] = "\n"
              THEN <<"\n">> \o TextDecode(SubSeq(b, 3, Len(b)))
              ELSE <<"\n">> \o TextDecode(Tail(b))
         ELSE <<Head(b)>> \o TextDecode(Tail(b))

\* a file opened with mode "a": the data follows the old content
FileAfterAppend(old, data) == IF old = NoFile THEN data ELSE old \o data

\* open(filename, "w") then f.write(data): the old content is discarded
FileAfterWrite(old, data) == data

\* the file after write_access_token(access_token, filename)
write_access_token(old, token, sep) ==
    FileAfterWrite(old, TextEncode(token, sep))

\* the value of read_access_token(filename) for an existing file
read_access_token(content) == strip(TextDecode(content))

----------------------------------------------------------------------------
(* authentication_handler: AuthHandler.do_GET and run_local_server *)

\* A request is its method, its query string as the sequence of the
\* <<key, value>> fields between the "&" separators (a field without a
\* value has value ""), and whether the confirmation page can be sent to
\* the client.
Queries ==
    { <<>>,
      << <<"auth_code", "A">> >>,
      << <<"auth_code", "B">> >>,
      << <<"auth_code", "">> >>,
      << <<"auth_code", "">>, <<"auth_code", "B">> >>,
      << <<"auth_code", "A">>, <<"auth_code", "B">> >>,
      << <<"state", "ok">>, <<"auth_code", "A">> >> }

Requests ==
    [method : {"GET"}, query : Queries, sendOk : BOOLEAN]
        \cup [method : {"POST"},
              query : { <<>>, << <<"auth_code", "A">> >> },
              sendOk : {TRUE}]

MainRequests ==
    [method : {"GET"},
     query : { <<>>, << <<"auth_code", "A">> >>, << <<"auth_code", "B">> >> },
     sendOk : {TRUE}]
        \cup [method : {"GET"}, query : { << <<"auth_code", "A">> >> },
              sendOk : {FALSE}]

FieldHasValue(f) == f[2] # ""

\* parse_qs with keep_blank_values=True: every field is kept
KeepBlankFields(query) == query

\* the fields parse_qs keeps: keep_blank_values defaults to False
KeptFields(query) == SelectSeq(query, FieldHasValue)

\* urllib.parse.parse_qs(query): each key with the list of its values
parse_qs(query) ==
    LET kept == KeptFields(query)
        ValuesOf(k) ==
            LET IsK(f) == f[1] = k
                fs == SelectSeq(kept, IsK)
            IN  [i \in 1..Len(fs) |-> fs[i][2]]
    IN  [k \in {kept[i][1] : i \in 1..Len(kept)} |-> ValuesOf(k)]

\* params["auth_code"][0]
FirstValue(values) == values[1]

\* a handler that stops the server on every GET request
StopsOnAnyGet(method, params) == method = "GET"

\* whether the request reaches do_GET and passes `"auth_code" in params`
CodeReceived(method, params) ==
    method = "GET" /\ "auth_code" \in DOMAIN params

RequestBound == IF pc = "listen" THEN MaxMainRequests ELSE MaxRequests

\* server_address = ("", port); HTTPServer(...) binds; the flags are set
ServerStart ==
    /\ spc = "init"
    /\ spc' = "serving"
    /\ httpd_running' = TRUE
    /\ httpd_auth_code' = NoValue
    /\ UNCHANGED <<g_auth_code, handled, auth_code>>
    /\ UNCHANGED <<chunkVars, tokenVars, fetchVars, mainVars>>

\* HTTPServer(...) raises (the port cannot be bound); main does not catch it
ServerBindFails ==
    /\ spc = "init"
    /\ spc' = "bind_failed"
    /\ pc' = IF pc = "listen" THEN "failed" ELSE pc
    /\ raised' = Error("OSError", "listen")
    /\ UNCHANGED <<httpd_running, httpd_auth_code, g_auth_code, handled,
                   auth_code>>
    /\ UNCHANGED <<chunkVars, tokenVars, fetchVars>>
    /\ UNCHANGED <<answer, access_token, session, csv, tokenFile0, events>>

\* one httpd.handle_request(): a request other than GET never reaches
\* do_GET; in do_GET the global is assigned first, then the page is sent,
\* and only then are the server's fields set; an exception from sending is
\* caught by handle_request, which returns normally
HandleRequest(req) ==
    LET params == parse_qs(req.query)
        code == IF "auth_code" \in DOMAIN params
                THEN FirstValue(params["auth_code"])
                ELSE httpd_auth_code
    IN  /\ spc = "serving"
        /\ httpd_running
        /\ Len(handled) < RequestBound
        /\ handled' = Append(handled, req)
        /\ IF CodeReceived(req.method, params)
           THEN /\ g_auth_code' = code
                /\ IF req.sendOk
                   THEN /\ httpd_auth_code' = code
                        /\ httpd_running' = FALSE
                   ELSE UNCHANGED <<httpd_auth_code, httpd_running>>
           ELSE UNCHANGED <<g_auth_code, httpd_auth_code, httpd_running>>
        /\ UNCHANGED <<spc, auth_code>>
        /\ UNCHANGED <<chunkVars, tokenVars, fetchVars, mainVars>>

\* the loop ends; auth_code = httpd.auth_code; return auth_code
ServerReturn ==
    /\ spc = "serving"
    /\ ~httpd_running
    /\ spc' = "returned"
    /\ auth_code' = httpd_auth_code
    /\ pc' = IF pc = "listen" THEN "exchange" ELSE pc
    /\ events' = IF pc = "listen" THEN Append(events, "code_returned")
                 ELSE events
    /\ UNCHANGED <<httpd_running, httpd_auth_code, g_auth_code, handled>>
    /\ UNCHANGED <<chunkVars, tokenVars, fetchVars>>
    /\ UNCHANGED <<answer, access_token, session, raised, csv, tokenFile0>>

----------------------------------------------------------------------------
(* fetch_historical_data and format_historical_prices *)

\* A candle is <<epoch seconds, volume in tenths>>; the four prices pass
\* through the fetch unchanged and are left out.
CandleValues == { <<0, 15>>, <<90, 20>> }

RECURSIVE SeqsUpTo(_, _)
SeqsUpTo(S, n) ==
    IF n = 0 THEN { <<>> }
    ELSE LET shorter == SeqsUpTo(S, n - 1)
         IN  shorter \cup {Append(s, x) : s \in shorter, x \in S}

\* what session.history(...) can give: a response with a candles array
\* (possibly empty), an error response without the "candles" key, or an
\* exception
HistoryResponses ==
    [kind : {"candles"}, candles : SeqsUpTo(CandleValues, MaxCandles)]
        \cup {[kind |-> "error", candles |-> <<>>],
              [kind |-> "raise", candles |-> <<>>]}

\* a truth test that every array passes
AlwaysTruthy(candles) == TRUE

\* if response["candles"]: an empty list is falsy
IsTruthy(candles) == candles # <<>>

\* the arrays stacked last first
RECURSIVE vstackReversed(_)
vstackReversed(arrays) ==
    IF arrays = <<>> THEN <<>>
    ELSE vstackReversed(Tail(arrays)) \o Head(arrays)

\* np.vstack(all_data): the rows of the arrays, in order
RECURSIVE vstack(_)
vstack(arrays) ==
    IF arrays = <<>> THEN <<>> ELSE Head(arrays) \o vstack(Tail(arrays))

\* one row of format_historical_prices: the time moved to Asia/Kolkata
\* wall-clock (UTC+5:30) and floored to the minute, the volume cast to int
FormatRow(c) == <<((c[1] + 19800) \div 60) * 60, c[2] \div 10>>

format_historical_prices(candle_data) ==
    [i \in 1..Len(candle_data) |-> FormatRow(candle_data[i])]

----------------------------------------------------------------------------
(* main *)

\* data_parameters.json: the interval and the resolution
DataParameters ==
    { <<<<30, 12, 2023>>, <<29, 12, 2023>>, "1">>,
      <<<<30, 12, 2023>>, <<30, 12, 2023>>, "D">>,
      <<<<30, 12, 2023>>, <<18, 2, 2024>>, "1">>,
      <<<<30, 12, 2023>>, <<9, 4, 2024>>, "15">>,
      <<<<30, 12, 2023>>, <<28, 5, 2024>>, "1">>,
      <<<<30, 12, 2023>>, <<5, 9, 2024>>, "60">>,
      <<<<30, 12, 2023>>, <<2, 2, 2025>>, "D">> }

Answers == {"y", "n", "Y"}

\* the tokens generate_token can give
MainTokens == { <<"a">>, <<"b", "b">> }

\* a prompt test that ignores case
HasTokenAnyCase(a) == a \in {"y", "Y"}

\* if response == "y"
HasToken(a) == a = "y"

\* an exception of the token exchange swallowed: main carries on
OnExceptionContinue(at) == IF at = "exchange" THEN "session" ELSE "failed"

\* every except clause re-raises and main catches nothing: main ends
OnException(at) == "failed"

\* read_json_file and read_data_parameters_file succeed
MainReadFiles(p) ==
    /\ pc = "read_files"
    /\ start_date' = p[1]
    /\ end_date' = p[2]
    /\ resolution' = p[3]
    /\ pc' = "prompt"
    /\ UNCHANGED <<date_ranges, cpc>>
    /\ UNCHANGED <<tokenVars, serverVars, fetchVars>>
    /\ UNCHANGED <<answer, access_token, session, raised, csv, tokenFile0,
                   events>>

\* response = input(...); if response == "y"
MainPrompt(a) ==
    /\ pc = "prompt"
    /\ answer' = a
    /\ pc' = IF HasToken(a) THEN "read_token" ELSE "auth_link"
    /\ UNCHANGED <<chunkVars, tokenVars, serverVars, fetchVars>>
    /\ UNCHANGED <<access_token, session, raised, csv, tokenFile0, events>>

\* access_token = read_access_token(ACCESS_TOKEN_FNAME)
MainReadToken ==
    /\ pc = "read_token"
    /\ IF tokenFile = NoFile
       THEN /\ pc' = OnException("read_token")
            /\ raised' = Error("FileNotFoundError", "read_token")
            /\ UNCHANGED <<access_token, events>>
       ELSE /\ access_token' = read_access_token(tokenFile)
            /\ events' = Append(events, "token_read")
            /\ pc' = "session"
            /\ UNCHANGED raised
    /\ UNCHANGED <<chunkVars, tokenVars, serverVars, fetchVars>>
    /\ UNCHANGED <<answer, session, csv, tokenFile0>>

\* get_authentication_link, the port, and the call of run_local_server
MainAuthLink ==
    /\ pc = "auth_link"
    /\ pc' = "listen"
    /\ spc' = "init"
    /\ events' = Append(events, "listen")
    /\ UNCHANGED <<httpd_running, httpd_auth_code, g_auth_code, handled,
                   auth_code>>
    /\ UNCHANGED <<chunkVars, tokenVars, fetchVars>>
    /\ UNCHANGED <<answer, access_token, session, raised, csv, tokenFile0>>

\* access_token = generate_access_token(credentials, auth_code)
MainExchange(t) ==
    /\ pc = "exchange"
    /\ access_token' = t
    /\ events' = Append(events, "exchange")
    /\ pc' = "write_token"
    /\ UNCHANGED <<chunkVars, tokenVars, serverVars, fetchVars>>
    /\ UNCHANGED <<answer, session, raised, csv, tokenFile0>>

\* write_access_token(access_token, ACCESS_TOKEN_FNAME)
MainWriteToken ==
    /\ pc = "write_token"
    /\ tokenFile' = write_access_token(tokenFile, access_token, linesep)
    /\ events' = Append(events, "token_written")
    /\ pc' = "session"
    /\ UNCHANGED <<linesep, tpc, nWrites, lastWritten, readResult>>
    /\ UNCHANGED <<chunkVars, serverVars, fetchVars>>
    /\ UNCHANGED <<answer, access_token, session, raised, csv, tokenFile0>>

\* write_access_token raises: open failed and the file is as it was, or the
\* write failed after open truncated the file
MainWriteTokenFails ==
    /\ pc = "write_token"
    /\ tokenFile' \in {tokenFile, <<>>}
    /\ pc' = OnException("write_token")
    /\ raised' = Error("OSError", "write_token")
    /\ UNCHANGED <<linesep, tpc, nWrites, lastWritten, readResult>>
    /\ UNCHANGED <<chunkVars, serverVars, fetchVars>>
    /\ UNCHANGED <<answer, access_token, session, csv, tokenFile0, events>>

\* session = create_fyers_session(credentials, access_token)
MainCreateSession ==
    /\ pc = "session"
    /\ session' = TRUE
    /\ events' = Append(events, "session")
    /\ pc' = "fetch"
    /\ UNCHANGED <<chunkVars, tokenVars, serverVars, fetchVars>>
    /\ UNCHANGED <<answer, access_token, raised, csv, tokenFile0>>

\* a call of main that raises: reading either JSON file, generating the
\* authentication link, the token exchange, creating the session, saving
\* the CSV; the exception is logged, re-raised and ends main
MainRaise ==
    /\ pc \in {"read_files", "auth_link", "exchange", "session", "save"}
    /\ pc = "save" => df.rows # <<>>
    /\ pc' = OnException(pc)
    /\ raised' = Error("Exception", pc)
    /\ UNCHANGED <<chunkVars, tokenVars, serverVars, fetchVars>>
    /\ UNCHANGED <<answer, access_token, session, csv, tokenFile0, events>>

\* the call of fetch_historical_data: date_ranges and all_data are set
FetchStart ==
    /\ pc = "fetch"
    /\ date_ranges' = get_date_ranges(start_date, end_date, resolution)
    /\ all_data' = <<>>
    /\ idx' = 1
    /\ pc' = "fetch_loop"
    /\ UNCHANGED <<start_date, end_date, resolution, cpc>>
    /\ UNCHANGED <<requests, responses, df>>
    /\ UNCHANGED <<tokenVars, serverVars>>
    /\ UNCHANGED <<answer, access_token, session, raised, csv, tokenFile0,
                   events>>

\* one iteration of the loop: the request for chunk idx and its response
FetchChunk(resp) ==
    LET range == date_ranges[idx] IN
    /\ pc = "fetch_loop"
    /\ idx <= Len(date_ranges)
    /\ requests' = Append(requests, range)
    /\ responses' = Append(responses, resp)
    /\ events' = Append(events, "history")
    /\ IF resp.kind = "raise"
       THEN /\ pc' = OnException("fetch")
            /\ raised' = Error("HistoryError", "fetch")
            /\ UNCHANGED <<all_data, idx>>
       ELSE IF resp.kind = "error"
       THEN /\ pc' = OnException("fetch")
            /\ raised' = Error("KeyError", "fetch")
            /\ UNCHANGED <<all_data, idx>>
       ELSE IF IsTruthy(resp.candles)
       THEN /\ all_data' = Append(all_data, resp.candles)
            /\ idx' = idx + 1
            /\ UNCHANGED <<pc, raised>>
       ELSE /\ pc' = OnException("fetch")
            /\ raised' = [type |-> "DataNotAvailable", at |-> "fetch",
                          from |-> range[1], to |-> range[2]]
            /\ UNCHANGED <<all_data, idx>>
    /\ UNCHANGED df
    /\ UNCHANGED <<chunkVars, tokenVars, serverVars>>
    /\ UNCHANGED <<answer, access_token, session, csv, tokenFile0>>

\* the loop is over: the stacked arrays are formatted and returned
FetchReturn ==
    /\ pc = "fetch_loop"
    /\ idx > Len(date_ranges)
    /\ df' = [returned |-> TRUE,
              rows |-> IF all_data # <<>>
                       THEN format_historical_prices(vstack(all_data))
                       ELSE <<>>]
    /\ pc' = "save"
    /\ UNCHANGED <<idx, all_data, requests, responses>>
    /\ UNCHANGED <<chunkVars, tokenVars, serverVars>>
    /\ UNCHANGED <<answer, access_token, session, raised, csv, tokenFile0,
                   events>>

\* if not df.empty: save_data_to_csv(df, filename), else a warning
MainSave ==
    /\ pc = "save"
    /\ IF df.rows # <<>>
       THEN /\ csv' = [written |-> TRUE, resolution |-> resolution,
                       start |-> start_date, end |-> end_date,
                       rows |-> df.rows]
            /\ events' = Append(events, "csv_written")
       ELSE UNCHANGED <<csv, events>>
    /\ pc' = "done"
    /\ UNCHANGED <<chunkVars, tokenVars, serverVars, fetchVars>>
    /\ UNCHANGED <<answer, access_token, session, raised, tokenFile0>>

----------------------------------------------------------------------------
(* Direct calls of get_date_ranges, of the token functions and of
   run_local_server, as a test makes them *)

StartDates == {<<30, 12, 2023>>, <<31, 12, 2023>>, <<28, 2, 2024>>}

\* the end dates paired with start date s: from the day before it to MaxSpan
\* days after it, written dd-mm-YYYY
EndDatesFor(s) ==
    {LET t == Ord2Ymd(strptime_dmY(s) + k) IN <<t[3], t[2], t[1]>> :
        k \in (-1)..MaxSpan}

CallGetDateRanges ==
    /\ cpc = "call"
    /\ date_ranges' = get_date_ranges(start_date, end_date, resolution)
    /\ cpc' = "returned"
    /\ UNCHANGED <<start_date, end_date, resolution>>
    /\ UNCHANGED <<tokenVars, serverVars, fetchVars, mainVars>>

TokenChars == {"a", " ", "\n", "\r"}

Tokens == SeqsUpTo(TokenChars, MaxTokenLen)

CallWriteAccessToken(t) ==
    /\ tpc \in {"start", "written"}
    /\ nWrites < MaxWrites
    /\ tokenFile' = write_access_token(tokenFile, t, linesep)
    /\ lastWritten' = t
    /\ nWrites' = nWrites + 1
    /\ tpc' = "written"
    /\ UNCHANGED <<linesep, readResult>>
    /\ UNCHANGED <<chunkVars, serverVars, fetchVars, mainVars>>

CallReadAccessToken ==
    /\ tpc \in {"start", "written"}
    /\ IF tokenFile = NoFile
       THEN tpc' = "read_raised" /\ UNCHANGED readResult
       ELSE tpc' = "read" /\ readResult' = read_access_token(tokenFile)
    /\ UNCHANGED <<linesep, tokenFile, nWrites, lastWritten>>
    /\ UNCHANGED <<chunkVars, serverVars, fetchVars, mainVars>>

----------------------------------------------------------------------------
(* Initial states and specifications *)

LineSeps == { <<"\n">>, <<"\r", "\n">> }

ChunkIdle ==
    /\ start_date = <<>>
    /\ end_date = <<>>
    /\ resolution = ""
    /\ date_ranges = <<>>
    /\ cpc = "idle"

TokenIdle ==
    /\ tpc = "idle"
    /\ nWrites = 0
    /\ lastWritten = NoToken
    /\ readResult = NoToken

ServerIdle ==
    /\ httpd_running = FALSE
    /\ httpd_auth_code = NoValue
    /\ g_auth_code = NoValue
    /\ handled = <<>>
    /\ auth_code = NoValue

FetchIdle ==
    /\ idx = 0
    /\ all_data = <<>>
    /\ requests = <<>>
    /\ responses = <<>>
    /\ df = NoFrame

MainIdle ==
    /\ answer = NoValue
    /\ access_token = NoToken
    /\ session = FALSE
    /\ raised = NoError
    /\ csv = NoCsv
    /\ tokenFile0 = tokenFile
    /\ events = <<>>

\* get_date_ranges called on a start date, an end date and a resolution
InitChunk ==
    /\ start_date \in StartDates
    /\ end_date \in EndDatesFor(start_date)
    /\ resolution \in Resolutions \cup {"W"}
    /\ date_ranges = <<>>
    /\ cpc = "call"
    /\ linesep = <<"\n">>
    /\ tokenFile = NoFile
    /\ TokenIdle /\ spc = "idle" /\ ServerIdle /\ FetchIdle
    /\ pc = "idle" /\ MainIdle

NextChunk == CallGetDateRanges

SpecChunk == InitChunk /\ [][NextChunk]_vars

\* writes of the token file followed by a read
InitToken ==
    /\ linesep \in LineSeps
    /\ tokenFile \in {NoFile, <<"a", "a">>}
    /\ tpc = "start"
    /\ nWrites = 0
    /\ lastWritten = NoToken
    /\ readResult = NoToken
    /\ ChunkIdle /\ spc = "idle" /\ ServerIdle /\ FetchIdle
    /\ pc = "idle" /\ MainIdle

NextToken ==
    \/ \E t \in Tokens : CallWriteAccessToken(t)
    \/ CallReadAccessToken

SpecToken == InitToken /\ [][NextToken]_vars

\* run_local_server called on its own
InitServer ==
    /\ spc = "init"
    /\ ServerIdle
    /\ linesep = <<"\n">>
    /\ tokenFile = NoFile
    /\ ChunkIdle /\ TokenIdle /\ FetchIdle
    /\ pc = "idle" /\ MainIdle

NextServer ==
    \/ ServerStart
    \/ ServerBindFails
    \/ \E req \in Requests : HandleRequest(req)
    \/ ServerReturn

SpecServer == InitServer /\ [][NextServer]_vars

\* a run of main
Init ==
    /\ pc = "read_files"
    /\ linesep \in LineSeps
    /\ tokenFile \in {NoFile, <<"o", "\n">>}
    /\ MainIdle
    /\ ChunkIdle /\ TokenIdle /\ spc = "idle" /\ ServerIdle /\ FetchIdle

Next ==
    \/ \E p \in DataParameters : MainReadFiles(p)
    \/ \E a \in Answers : MainPrompt(a)
    \/ MainReadToken
    \/ MainAuthLink
    \/ ServerStart
    \/ ServerBindFails
    \/ \E req \in MainRequests : HandleRequest(req)
    \/ ServerReturn
    \/ \E t \in MainTokens : MainExchange(t)
    \/ MainWriteToken
    \/ MainWriteTokenFails
    \/ MainCreateSession
    \/ MainRaise
    \/ FetchStart
    \/ \E resp \in HistoryResponses : FetchChunk(resp)
    \/ FetchReturn
    \/ MainSave

Spec == Init /\ [][Next]_vars

----------------------------------------------------------------------------
(* Properties of get_date_ranges *)

\* a "YYYY-MM-DD" string read back as an ordinal
OrdOfYmd(t) == Ymd2Ord(t[1], t[2], t[3])

ReqStart == strptime_dmY(start_date)
ReqEnd == strptime_dmY(end_date)
ChunkStart(i) == OrdOfYmd(date_ranges[i][1])
ChunkEnd(i) == OrdOfYmd(date_ranges[i][2])

\* C1: for start <= end the chunks exactly cover [start, end]: the first
\* chunk starts at the requested start, the last chunk ends at the requested
\* end, and every day of the interval lies in some chunk.
C1_ExactCover ==
    (cpc = "returned" /\ ReqStart <= ReqEnd) =>
        /\ Len(date_ranges) >= 1
        /\ ChunkStart(1) = ReqStart
        /\ ChunkEnd(Len(date_ranges)) = ReqEnd
        /\ \A day \in ReqStart..ReqEnd :
               \E i \in 1..Len(date_ranges) :
                   ChunkStart(i) <= day /\ day <= ChunkEnd(i)

\* C2: consecutive chunks are contiguous (the earlier end plus one day is
\* the later start), so they are in strictly chronological order without
\* gap or overlap, and every chunk has start <= end.
C2_Contiguous ==
    cpc = "returned" =>
        /\ \A i \in 1..(Len(date_ranges) - 1) :
               /\ ChunkEnd(i) + 1 = ChunkStart(i + 1)
               /\ ChunkStart(i) < ChunkStart(i + 1)
        /\ \A i \in 1..Len(date_ranges) : ChunkStart(i) <= ChunkEnd(i)

C2_Witness ==
    /\ cpc = "returned"
    /\ Len(date_ranges) >= 3
    /\ ChunkEnd(1) + 1 = ChunkStart(2)

\* C3: every chunk spans at most the limit of its resolution (end minus
\* start is at most 365 days for "D" and at most 100 days for every other
\* resolution, known or not); "D" over a 400-day range and "1" over a
\* 150-day range each give exactly 2 chunks.
C3_Bounded ==
    cpc = "returned" =>
        /\ \A i \in 1..Len(date_ranges) :
               ChunkEnd(i) - ChunkStart(i)
                   <= (IF resolution = "D" THEN 365 ELSE 100)
        /\ (resolution = "D" /\ ReqEnd - ReqStart \in {399, 400})
               => Len(date_ranges) = 2
        /\ (resolution = "1" /\ ReqEnd - ReqStart \in {149, 150})
               => Len(date_ranges) = 2

C3_Witness ==
    /\ cpc = "returned"
    /\ resolution = "D"
    /\ ReqEnd - ReqStart = 400
    /\ Len(date_ranges) = 2
    /\ ChunkEnd(1) - ChunkStart(1) = 365

----------------------------------------------------------------------------
(* Properties of the token file *)

\* r is s without its leading and trailing whitespace
IsTrimOf(r, s) ==
    \E i \in 1..(Len(s) + 1), j \in 0..Len(s) :
        /\ r = SubSeq(s, i, j)
        /\ \A k \in 1..(i - 1) : s[k] \in Whitespace
        /\ \A k \in (j + 1)..Len(s) : s[k] \in Whitespace
        /\ r # <<>> => (r[1] \notin Whitespace /\ r[Len(r)] \notin Whitespace)

HasCR(s) == \E k \in 1..Len(s) : s[k] = "\r"

\* C8 as stated: for any token, a read after writes returns the most recently
\* written token, whitespace-trimmed.
C8_RoundTrip ==
    (tpc = "read" /\ nWrites >= 1) => IsTrimOf(readResult, lastWritten)

\* C8 amended: for any token without a carriage return, a read after writes
\* returns the most recently written token, whitespace-trimmed.
C8_RoundTripNoCR ==
    (tpc = "read" /\ nWrites >= 1 /\ ~HasCR(lastWritten))
        => IsTrimOf(readResult, lastWritten)

C8_Witness ==
    /\ tpc = "read"
    /\ nWrites = 2
    /\ tokenFile0 # NoFile
    /\ lastWritten = <<" ", "a", "\n">>
    /\ readResult = <<"a">>

----------------------------------------------------------------------------
(* Properties of run_local_server *)

HasKey(req) == \E i \in 1..Len(req.query) : req.query[i][1] = "auth_code"

\* the value of the first auth_code field of the query
FirstKeyValue(req) ==
    LET i == CHOOSE k \in 1..Len(req.query) :
                 /\ req.query[k][1] = "auth_code"
                 /\ \A l \in 1..(k - 1) : req.query[l][1] # "auth_code"
    IN  req.query[i][2]

HasCode(req) ==
    \E i \in 1..Len(req.query) :
        req.query[i][1] = "auth_code" /\ req.query[i][2] # ""

\* the first non-empty value of an auth_code field of the query
FirstCode(req) ==
    LET i == CHOOSE k \in 1..Len(req.query) :
                 /\ req.query[k][1] = "auth_code" /\ req.query[k][2] # ""
                 /\ \A l \in 1..(k - 1) :
                        ~(req.query[l][1] = "auth_code"
                              /\ req.query[l][2] # "")
    IN  req.query[i][2]

Accepted(req) == req.method = "GET" /\ HasCode(req) /\ req.sendOk

C9_NoCodeNoChange ==
    /\ [](spc = "returned" =>
              /\ auth_code # NoValue
              /\ \E i \in 1..Len(handled) :
                     handled[i].method = "GET" /\ HasCode(handled[i]))
    /\ [][(Len(handled') = Len(handled) + 1
               /\ ~HasCode(handled'[Len(handled')]))
              => /\ httpd_running /\ httpd_running'
                 /\ httpd_auth_code' = NoValue
                 /\ spc' = "serving"
                 /\ auth_code' = NoValue]_vars

C9_Witness ==
    /\ spc = "serving"
    /\ httpd_running
    /\ httpd_auth_code = NoValue
    /\ Len(handled) = 2
    /\ \A i \in 1..2 : handled[i].method = "GET" /\ ~HasCode(handled[i])

----------------------------------------------------------------------------
(* Properties of main and fetch_historical_data *)

EmptyCandles(resp) == resp.kind = "candles" /\ resp.candles = <<>>

GoodResponse(resp) == resp.kind = "candles" /\ resp.candles # <<>>

\* C4: a chunk response without candles, whichever chunk it is, ends the
\* fetch with an error naming that chunk; no DataFrame is returned and no
\* CSV is written. The same holds, but for the name, of a response that is
\* an error or an exception.
C4_AllOrNothing ==
    \A i \in 1..Len(responses) :
        /\ ~GoodResponse(responses[i]) =>
               /\ pc = "failed"
               /\ ~df.returned
               /\ ~csv.written
        /\ EmptyCandles(responses[i]) =>
               /\ raised.type = "DataNotAvailable"
               /\ raised.from = date_ranges[i][1]
               /\ raised.to = date_ranges[i][2]

C4_Witness ==
    /\ Len(date_ranges) = 3
    /\ Len(responses) = 2
    /\ GoodResponse(responses[1])
    /\ EmptyCandles(responses[2])
    /\ pc = "failed"
    /\ ~csv.written

\* C6: once generate_access_token has raised, main has ended: the token file
\* is as it was when main started, there is no session, no history request
\* was issued and no CSV was written.
C6_ExchangeFailureAborts ==
    raised.at = "exchange" =>
        /\ pc = "failed"
        /\ tokenFile = tokenFile0
        /\ access_token = NoToken
        /\ ~session
        /\ requests = <<>>
        /\ ~csv.written

C6_Witness ==
    /\ raised.at = "exchange"
    /\ pc = "failed"
    /\ tokenFile0 # NoFile
    /\ auth_code = "A"

Occurs(e) == \E i \in 1..Len(events) : events[i] = e

\* every occurrence of event e2 comes after an occurrence of event e1
Precedes(e1, e2) ==
    \A j \in 1..Len(events) :
        events[j] = e2 => \E i \in 1..(j - 1) : events[i] = e1

\* C7: with answer "y" the listener is never started, no token is exchanged
\* and the token file is read but never written; with any other answer the
\* listener returns the code before the exchange, the exchange comes before
\* the token is written and the token is written before the first history
\* request; no history request is issued before main has an access token.
C7_PromptGates ==
    /\ answer = "y" =>
           /\ spc = "idle" /\ handled = <<>>
           /\ ~Occurs("listen") /\ ~Occurs("exchange")
           /\ ~Occurs("token_written")
           /\ tokenFile = tokenFile0
           /\ session => Occurs("token_read")
    /\ answer \notin {NoValue, "y"} =>
           /\ ~Occurs("token_read")
           /\ Precedes("listen", "code_returned")
           /\ Precedes("code_returned", "exchange")
           /\ Precedes("exchange", "token_written")
           /\ Precedes("token_written", "history")
    /\ requests # <<>> => (Occurs("history") /\ access_token # NoToken)
    /\ Occurs("history") => requests # <<>>

C7_Witness ==
    /\ answer = "Y"
    /\ Len(requests) >= 2
    /\ Occurs("token_written")
    /\ tokenFile = <<"b", "b">>

\* the number of candles in the first n responses
RECURSIVE CandlesBefore(_)
CandlesBefore(n) ==
    IF n = 0 THEN 0
    ELSE CandlesBefore(n - 1) + Len(responses[n].candles)

\* C10: the history requests are the chunks in order, one each; a response
\* without candles is the last one requested; when the fetch returns, every
\* chunk was requested and the rows are the candles of the responses in
\* chunk order, each exactly once.
C10_OneRequestPerChunk ==
    /\ Len(requests) = Len(responses)
    /\ Len(requests) <= Len(date_ranges)
    /\ \A i \in 1..Len(requests) : requests[i] = date_ranges[i]
    /\ \A i \in 1..Len(responses) :
           ~GoodResponse(responses[i]) => Len(requests) = i
    /\ df.returned =>
           /\ Len(requests) = Len(date_ranges)
           /\ Len(df.rows) = CandlesBefore(Len(responses))
           /\ \A i \in 1..Len(responses) :
                  \A k \in 1..Len(responses[i].candles) :
                      df.rows[CandlesBefore(i - 1) + k]
                          = FormatRow(responses[i].candles[k])

C10_Witness ==
    /\ df.returned
    /\ Len(date_ranges) = 3
    /\ Len(requests) = 3
    /\ responses[1].candles # responses[2].candles
    /\ Len(df.rows) >= 3
====
